---- MODULE Spec2Model ----
(***************************************************************************)
(* Model of the cluster routing actor (src/src/cluster.rs) of              *)
(* actix-redis-cluster: the slot table, the node registry with its         *)
(* per-node waiter queues, request dispatch, MOVED/ASK redirection, the    *)
(* slot-table refresh and the supervised restart.                          *)
(*                                                                         *)
(* The actor runs on the actix context loop: futures registered with       *)
(* ctx.wait block the mailbox and the spawned items until they complete;   *)
(* the mailbox is drained before the spawned items (reply streams, write   *)
(* halves, response futures) are polled.                                   *)
(***************************************************************************)
EXTENDS Integers, Naturals, Sequences, FiniteSets, TLC

VARIABLES
    addrs,        \* RedisClusterActor.addrs: the seed addresses
    nodes,        \* RedisClusterActor.nodes: address -> Node.queue (waiter ids, head first)
    stale_slots,  \* RedisClusterActor.stale_slots
    slots,        \* RedisClusterActor.slots: sequence of [start, end, master_addr]
    started,      \* the context has run Actor::started since construction / restart
    wait,         \* futures registered with ctx.wait (connection attempts), newest last
    mailbox,      \* the actor's mailbox, oldest first
    futs,         \* response futures of handled RawRequests, each owning the rx of a waiter
    wire,         \* address -> frames written on the connection and not yet answered
    lastWritten,  \* address -> the frame written last on the connection
    nextId,       \* next fresh waiter / frame identifier
    calls,        \* the caller commands issued so far and what their callers observed
    budget,       \* what the environment may still do (calls, redirect replies, faults)
    hist,         \* observations recorded for the properties: the outcomes of the
                  \* waiters of the connection dropped last, the address of a MOVED
                  \* not followed by a CLUSTER SLOTS request yet, the Stops handled,
                  \* the nodes whose connection failed and is not made again yet,
                  \* the address of a connection attempt made by the ASK arm
                  \* and still waited for
    probe         \* a command taken through the command contract on its own:
                  \* its hasher while hash_keys feeds it, its key_slot, a reply
                  \* and what from_response makes of it

router == <<addrs, nodes, stale_slots, slots, started, wait, mailbox,
            futs, wire, lastWritten, nextId, calls, budget, hist>>

vars == <<addrs, nodes, stale_slots, slots, started, wait, mailbox,
          futs, wire, lastWritten, nextId, calls, budget, hist, probe>>

-----------------------------------------------------------------------------
(* Bounds of the model *)

MaxCalls == 2          \* caller commands in the pipelined scenario
MaxRedirects == 2      \* MOVED/ASK replies the nodes give in the faulty scenario
MaxFaults == 1         \* connection errors and Stop messages in the faulty scenario
DeepExtra == 2         \* redirect replies beyond MAX_RETRY in the deep scenario
MaxKeys == 3           \* keys of a Del taken through the command contract
MaxOdd == 1            \* replies that are neither a value nor a redirect
MaxLive == 8           \* oneshot channels told apart where redirects never end

(* Program constants *)

MAX_RETRY == 16
SLOT_COUNT == 16384

None == "None"

-----------------------------------------------------------------------------
(* Slot hasher: CRC16/XMODEM over the hash tag or the whole key *)

RECURSIVE BitXor(_, _, _)
BitXor(a, b, n) ==
    IF n = 0 THEN 0
    ELSE (((a % 2) + (b % 2)) % 2) + 2 * BitXor(a \div 2, b \div 2, n - 1)

\* sh[c, k] is the register c after k more shifts
CrcShift(crc, n) ==
    LET sh[c \in 0..65535, k \in 0..n] ==
            IF k = 0 THEN c
            ELSE sh[IF c >= 32768
                    THEN BitXor((c * 2) % 65536, 4129, 16)
                    ELSE (c * 2) % 65536,
                    k - 1]
    IN sh[crc, n]

\* acc[i] is the register after the first i bytes
Crc16(bytes, crc) ==
    LET acc[i \in 0..Len(bytes)] ==
            IF i = 0 THEN crc
            ELSE LET step[c \in 0..65535] ==
                         CrcShift(BitXor(c, bytes[i] * 256, 16), 8)
                 IN step[acc[i - 1]]
    IN acc[Len(bytes)]

\* index of the first occurrence of byte b in s at or after position i, 0 if none
RECURSIVE IndexFrom(_, _, _)
IndexFrom(s, b, i) ==
    IF i > Len(s) THEN 0
    ELSE IF s[i] = b THEN i
    ELSE IndexFrom(s, b, i + 1)

\* the bytes that are hashed: the non-empty text between the first '{' and the
\* next '}', otherwise the whole key
HashTag(key) ==
    LET open == IndexFrom(key, 123, 1)
        close == IF open = 0 THEN 0 ELSE IndexFrom(key, 125, open + 1)
    IN IF open # 0 /\ close > open + 1
       THEN SubSeq(key, open + 1, close - 1)
       ELSE key

slot(key) == Crc16(HashTag(key), 0) % SLOT_COUNT

\* Hasher state: <<>> is None, <<s>> is Some(s).  Hasher::set moves None to
\* Some(s), keeps Some(s) on an equal slot, and fails otherwise, naming the
\* two slots.
Hasher_new == [ok |-> TRUE, val |-> <<>>]

set(h, s) ==
    IF ~h.ok THEN h
    ELSE IF h.val = <<>> THEN [ok |-> TRUE, val |-> <<s>>]
    ELSE IF h.val[1] = s THEN h
    ELSE [ok |-> FALSE, val |-> <<h.val[1], s>>]

\* Hasher::hash_str: the slot of the key is set
hash_str(h, key) == set(h, slot(key))

\* Del::hash_keys with a slip: the loop ends after the first key
hash_keys_head(keys, h) ==
    IF keys = <<>> THEN h ELSE hash_str(h, Head(keys))

\* Del::hash_keys, EvalSha::hash_keys: every key is fed in order, the first
\* failure ends the loop
RECURSIVE hash_keys(_, _)
hash_keys(keys, h) ==
    IF keys = <<>> THEN h
    ELSE hash_keys(Tail(keys), hash_str(h, Head(keys)))

\* Get::hash_keys with a slip: the key is not fed
Get_hash_keys_none(cmd, h) == h

\* Get::hash_keys, Ttl::hash_keys, Pttl::hash_keys: the key is fed
Get_hash_keys(cmd, h) == hash_str(h, cmd.keys[1])

\* ScriptLoad::hash_keys: the slot the command carries is set
ScriptLoad_hash_keys(cmd, h) == set(h, cmd.slot)

\* Command::hash_keys of the command
Command_hash_keys(cmd, h) ==
    CASE cmd.name \in {"GET", "TTL", "PTTL", "INCRBY", "DECRBY"} -> Get_hash_keys(cmd, h)
      [] cmd.name \in {"DEL", "EVALSHA"} -> hash_keys(cmd.keys, h)
      [] cmd.name = "SCRIPT LOAD" -> ScriptLoad_hash_keys(cmd, h)

\* Command::key_slot with a slip: the slot of the first key, no error
key_slot_first(cmd) ==
    IF cmd.name = "SCRIPT LOAD" THEN [ok |-> TRUE, val |-> <<cmd.slot>>]
    ELSE IF cmd.keys = <<>> THEN [ok |-> TRUE, val |-> <<>>]
    ELSE [ok |-> TRUE, val |-> <<slot(cmd.keys[1])>>]

\* Command::key_slot: [ok |-> TRUE, val |-> <<>> or <<s>>] or the MultipleSlot error
key_slot(cmd) == Command_hash_keys(cmd, Hasher_new)

-----------------------------------------------------------------------------
(* The environment: addresses, commands, replies *)

Reachable == {"A", "B"}          \* nodes that accept connections
Addrs == Reachable \cup {"X"}    \* "X" names a node that refuses connections

KeyA == <<97>>                   \* "a", slot 15495
KeyB == <<98>>                   \* "b", slot 3300

KeyActix == <<97, 99, 116, 105, 120>>   \* "actix", slot 15206

\* a command: its name, its keys, the slot it carries (ScriptLoad) and its
\* integer argument (IncrBy, DecrBy)
Get(key) == [name |-> "GET", keys |-> <<key>>, slot |-> 0, arg |-> 0]
Del(keys) == [name |-> "DEL", keys |-> keys, slot |-> 0, arg |-> 0]
Ttl(key) == [name |-> "TTL", keys |-> <<key>>, slot |-> 0, arg |-> 0]
Pttl(key) == [name |-> "PTTL", keys |-> <<key>>, slot |-> 0, arg |-> 0]
ScriptLoad(s) == [name |-> "SCRIPT LOAD", keys |-> <<>>, slot |-> s, arg |-> 0]
EvalSha(keys) == [name |-> "EVALSHA", keys |-> keys, slot |-> 0, arg |-> 0]
IncrBy(key, increment) ==
    [name |-> "INCRBY", keys |-> <<key>>, slot |-> 0, arg |-> increment]
DecrBy(key, decrement) ==
    [name |-> "DECRBY", keys |-> <<key>>, slot |-> 0, arg |-> decrement]

Cmds == { Get(KeyA), Get(KeyB), Del(<<KeyA, KeyB>>), Del(<<>>) }

\* a script loaded on the node of the slot of "actix" and run on that key
ScriptCmds == { ScriptLoad(15206), EvalSha(<<KeyActix, KeyActix>>) }

\* RespValue, every variant carried by one record shape: t is the variant,
\* i the integer, s the text and a the elements of an array
Nil == [t |-> "Nil", i |-> 0, s |-> "", a |-> <<>>]
Integer(n) == [t |-> "Integer", i |-> n, s |-> "", a |-> <<>>]
BulkString(str) == [t |-> "BulkString", i |-> 0, s |-> str, a |-> <<>>]
SimpleString(str) == [t |-> "SimpleString", i |-> 0, s |-> str, a |-> <<>>]
Error(str) == [t |-> "Error", i |-> 0, s |-> str, a |-> <<>>]
Array(elems) == [t |-> "Array", i |-> 0, s |-> "", a |-> elems]

\* resp_array![..] and Into<RespValue>: a string becomes a BulkString of its
\* bytes, a RespValue stays what it is
resp_array(elems) == Array(elems)

\* M::into_request of Get, Del, Ttl, Pttl, IncrBy and DecrBy
into_request(cmd) ==
    CASE cmd.name = "GET" -> resp_array(<<BulkString("GET"), BulkString(cmd.keys[1])>>)
      [] cmd.name = "DEL" ->
            Array(<<BulkString("DEL")>>
                  \o [k \in DOMAIN cmd.keys |-> BulkString(cmd.keys[k])])
      [] cmd.name = "TTL" -> resp_array(<<BulkString("TTL"), BulkString(cmd.keys[1])>>)
      [] cmd.name = "PTTL" -> resp_array(<<BulkString("TTL"), BulkString(cmd.keys[1])>>)
      [] cmd.name = "INCRBY" ->
            resp_array(<<BulkString("INCRBY"), BulkString(cmd.keys[1]),
                         Integer(cmd.arg)>>)
      [] cmd.name = "DECRBY" ->
            resp_array(<<BulkString("DECRBY"), BulkString(cmd.keys[1]),
                         Integer(cmd.arg)>>)

Port == 7000                     \* every node listens on this port
NodeEntry(host) == Array(<<BulkString(host), Integer(Port)>>)

\* an entry of a CLUSTER SLOTS reply: start, end and the nodes serving the range
SlotsEntry(start, end, hosts) ==
    Array(<<Integer(start), Integer(end)>>
          \o [k \in DOMAIN hosts |-> NodeEntry(hosts[k])])

\* the CLUSTER SLOTS replies of a cluster of two masters, and of one master
\* with a replica
Layouts == { Array(<<SlotsEntry(0, 8191, <<"A">>), SlotsEntry(8192, 16383, <<"B">>)>>),
             Array(<<SlotsEntry(0, 16383, <<"A", "B">>)>>) }

\* a CLUSTER SLOTS reply with an entry that lists no node, and an error reply
ZeroNodeLayout ==
    Array(<<SlotsEntry(0, 8191, <<"A">>), SlotsEntry(8192, 16383, <<>>)>>)
BadLayouts == { ZeroNodeLayout, Error("ERR") }

NoRes == [kind |-> "none", node |-> "-", target |-> "-", for |-> 0, table |-> Nil]
NoFrame == [id |-> 0, call |-> 0, kind |-> "-", via |-> "-", src |-> 0]
NoResult == [kind |-> "none", node |-> "-", text |-> "-"]

\* replies that are neither a value nor a redirect: an error with another
\* text ("ERR ..."), a frame of a shape the command does not expect
OddKinds == {"ERR", "shape"}

\* a budget of redirects that does not run out: the nodes may answer with
\* ASK as often as they are asked
Forever == -1

\* in place of a budget of redirects: the nodes answer with redirects that
\* lack the address, "MOVED 3999" or "ASK 3999"
Truncated == -2
NoTarget == "-"

\* the budget after one use
Spent(n) == IF n < 0 THEN n ELSE n - 1

Reply(k, n, t, id, tab) ==
    [kind |-> k, node |-> n, target |-> t, for |-> id, table |-> tab]

\* what the node at address a may answer to the frame fr
Replies(a, fr, b) ==
    IF fr.kind = "slots"
    THEN { Reply("slots", a, "-", fr.id, l) : l \in Layouts \cup BadLayouts }
    ELSE { Reply("val", a, "-", fr.id, Nil) }
            \cup IF b.redirects = Truncated
                 THEN IF fr.kind = "cmd"
                      THEN { Reply(k, a, NoTarget, fr.id, Nil) :
                                 k \in {"MOVED", "ASK"} }
                      ELSE {}
                 ELSE IF b.redirects # 0 /\ (fr.kind = "cmd" \/ b.asking)
                 THEN { Reply(k, a, t, fr.id, Nil) :
                            k \in IF b.redirects = Forever THEN {"ASK"}
                                  ELSE {"MOVED", "ASK"},
                            t \in Addrs \ {a} }
                 ELSE {}
            \cup IF b.odd > 0 /\ fr.kind = "cmd"
                 THEN { Reply(k, a, "-", fr.id, Nil) : k \in OddKinds }
                 ELSE {}

CmdMsg(c) ==
    [type |-> "Cmd", call |-> c, kind |-> "-", addr |-> "-", retry |-> 0,
     via |-> "-", src |-> 0, parent |-> "-"]
StopMsg ==
    [type |-> "Stop", call |-> 0, kind |-> "-", addr |-> "-", retry |-> 0,
     via |-> "-", src |-> 0, parent |-> "-"]
\* RawRequest::new(addr, req, retry); parent tells whether the future awaiting
\* the response lives on the arbiter (Handler<M>) or in the actor's context
RawRequest(c, k, a, r, v, s, p) ==
    [type |-> "Raw", call |-> c, kind |-> k, addr |-> a, retry |-> r,
     via |-> v, src |-> s, parent |-> p]

-----------------------------------------------------------------------------
(* Router helpers *)

EmptyMap == [a \in {} |-> <<>>]
Put(f, a, v) == [x \in DOMAIN f \cup {a} |-> IF x = a THEN v ELSE f[x]]

\* MOVED guard with a slip: one redirect too many
MovedGuardOffByOne(retry) == retry <= MAX_RETRY
\* MOVED guard that gives up after the first redirect
MovedGuardOnce(retry) == retry < 1

\* the guard of the MOVED arm: e.starts_with("MOVED") && retry < MAX_RETRY
MovedGuard(retry) == retry < MAX_RETRY

\* the retry count carried by the request re-sent after MOVED
MovedRetry(retry) == retry + 1

\* the retry count carried by the request re-sent after ASK
AskRetry(retry) == retry

\* the identity of the next oneshot channel; where the redirects never run
\* out the identities of channels long gone are used again
NextId(n) == IF budget.redirects = Forever THEN (n % MaxLive) + 1 ELSE n + 1

\* a count of what a call has been through, kept exact wherever the
\* redirects run out
Tally(n) == IF budget.redirects = Forever THEN 1 ELSE n + 1

\* node.queue.push_back(tx) with a slip: the waiter jumps the queue
PushFront(queue, id) == <<id>> \o queue

\* node.queue.push_back(tx) with a slip: the queue is replaced by the waiter
PushOnly(queue, id) == <<id>>

\* node.queue.push_back(tx)
PushBack(queue, id) == Append(queue, id)

\* node.queue.pop_front() with a slip: the head waiter stays in the queue
pop_front_keep(queue) == queue

\* node.queue.pop_front(): the queue without its head waiter
pop_front(queue) == Tail(queue)

\* connect_to_node with a slip: an attempt is made for a registered address too
connect_to_node_always(w, n, addr) == Append(w, addr)

\* connect_to_node: nothing for a registered address, otherwise a connection
\* attempt the context waits for
connect_to_node(w, n, addr) ==
    IF addr \in DOMAIN n THEN w ELSE Append(w, addr)

\* the condition with a slip: every new connection asks for the slots
NeedsSlotsAlways(connected, stale) == connected

\* the closure of connect_to_node: connected && act.stale_slots
NeedsSlots(connected, stale) == connected /\ stale

\* random_node_addr with a slip: a seed is named when no node is registered
random_node_addr_seed(n) == IF DOMAIN n = {} THEN {addrs[1]} ELSE DOMAIN n

\* random_node_addr: any registered address, None if there is none
random_node_addr(n) == IF DOMAIN n = {} THEN {None} ELSE DOMAIN n

\* the scan of choose_node_addr with a slip: the last range containing the
\* slot is taken
LastRange(tab, s, i) ==
    LET m == {k \in i..Len(tab) : tab[k].start <= s /\ s <= tab[k].end}
    IN IF m = {} THEN 0 ELSE CHOOSE k \in m : \A j \in m : j <= k

\* the scan of choose_node_addr: the index of the first range at or after i
\* that contains the slot, 0 if there is none
RECURSIVE FirstRange(_, _, _)
FirstRange(tab, s, i) ==
    IF i > Len(tab) THEN 0
    ELSE IF tab[i].start <= s /\ s <= tab[i].end THEN i
    ELSE FirstRange(tab, s, i + 1)

\* choose_node_addr: the addresses the call may be routed to
choose_node_addr(tab, n, ks) ==
    IF ks # <<>> /\ FirstRange(tab, ks[1], 1) # 0
    THEN {tab[FirstRange(tab, ks[1], 1)].master_addr}
    ELSE random_node_addr(n)

Err == [ok |-> FALSE, val |-> <<>>]
Ok(v) == [ok |-> TRUE, val |-> v]

\* u32::from_resp, i64::from_resp, String::from_resp (the integers of the
\* replies modelled stay far below the 32 bits of a u32)
u32_from_resp(v) == IF v.t = "Integer" /\ v.i >= 0 THEN Ok(v.i) ELSE Err
i64_from_resp(v) == IF v.t = "Integer" THEN Ok(v.i) ELSE Err
String_from_resp(v) == IF v.t \in {"BulkString", "SimpleString"} THEN Ok(v.s) ELSE Err

\* Slots::master: the address "host:port" of a node; with one port for all
\* nodes the host names the address
master(host, port) == host

\* a node of an entry: an array of at least host and port
parse_node(node) ==
    IF node.t = "Array" /\ Len(node.a) >= 2
       /\ String_from_resp(node.a[1]).ok /\ i64_from_resp(node.a[2]).ok
    THEN Ok(master(node.a[1].s, node.a[2].i))
    ELSE Err

\* ClusterSlots::from_response::parse_entry: (start, end, addresses of the
\* nodes, master first), start and end cut to 16 bits
parse_entry(res) ==
    IF res.t = "Array" /\ Len(res.a) >= 3
       /\ u32_from_resp(res.a[1]).ok /\ u32_from_resp(res.a[2]).ok
       /\ \A k \in 3..Len(res.a) : parse_node(res.a[k]).ok
    THEN Ok(<<res.a[1].i % 65536, res.a[2].i % 65536,
              [k \in 1..(Len(res.a) - 2) |-> parse_node(res.a[k + 2]).val]>>)
    ELSE Err

\* ClusterSlots::from_response: every entry parses, or the reply is refused
ClusterSlots_from_response(res) ==
    IF res.t = "Array" /\ \A k \in DOMAIN res.a : parse_entry(res.a[k]).ok
    THEN Ok([k \in DOMAIN res.a |-> parse_entry(res.a[k]).val])
    ELSE Err

\* the table built with a slip: a range for every node of an entry
RECURSIVE NewSlotsAllNodes(_)
NewSlotsAllNodes(table) ==
    IF table = <<>> THEN <<>>
    ELSE LET e == Head(table)
         IN [k \in DOMAIN e[3] |->
                [start |-> e[1], end |-> e[2], master_addr |-> e[3][k]]]
            \o NewSlotsAllNodes(Tail(table))

\* the slot table built from a parsed CLUSTER SLOTS reply: entries without
\* nodes are skipped, the first node is the master
RECURSIVE NewSlots(_)
NewSlots(table) ==
    IF table = <<>> THEN <<>>
    ELSE LET e == Head(table)
         IN (IF e[3] # <<>>
             THEN <<[start |-> e[1], end |-> e[2], master_addr |-> e[3][1]]>>
             ELSE <<>>) \o NewSlots(Tail(table))

\* the Err arm of the closure with a slip: the table is dropped
RefreshFailedClears(tab) == <<>>

\* the Err arm of the closure of retrieve_cluster_slots: a warning, the table
\* is left as it is
RefreshFailed(tab) == tab

\* the connection attempts made while the table is built
RECURSIVE ConnectMasters(_, _, _)
ConnectMasters(w, n, table) ==
    IF table = <<>> THEN w
    ELSE LET e == Head(table)
         IN ConnectMasters(IF e[3] # <<>> THEN connect_to_node(w, n, e[3][1]) ELSE w,
                           n, Tail(table))

\* the ASK arm with a slip: the request is sent twice
AskSendsTwice(f, target) ==
    << RawRequest(f.call, "asking", target, f.retry, "spawn", f.id, "ctx"),
       RawRequest(f.call, f.kind, target, AskRetry(f.retry), "ASK", f.id, "ctx"),
       RawRequest(f.call, f.kind, target, AskRetry(f.retry), "ASK", f.id, "ctx") >>

\* the two requests the ASK arm sends, in the wrong order
AskSendsSwapped(f, target) ==
    << RawRequest(f.call, f.kind, target, AskRetry(f.retry), "ASK", f.id, "ctx"),
       RawRequest(f.call, "asking", target, f.retry, "spawn", f.id, "ctx") >>

\* the two requests the ASK arm sends to itself: ASKING, then the request
AskSends(f, target) ==
    << RawRequest(f.call, "asking", target, f.retry, "spawn", f.id, "ctx"),
       RawRequest(f.call, f.kind, target, AskRetry(f.retry), "ASK", f.id, "ctx") >>

\* M::from_response with a slip: every reply is taken for a value
from_response_lenient(res) == [kind |-> "val", node |-> res.node, text |-> "-"]

\* M::from_response for the keyed commands, as the caller sees it
from_response(res) ==
    IF res.kind = "val"
    THEN [kind |-> "val", node |-> res.node, text |-> "-"]
    ELSE [kind |-> "Redis", node |-> res.node, text |-> res.kind]

Failed(k) == [kind |-> k, node |-> "-", text |-> "-"]

\* the results of Ttl::from_response and Pttl::from_response: Ok(Ok(x)),
\* Ok(Err(TtlError)) and Err(RespError::RESP)
TtlOk(x) == [ok |-> TRUE, kind |-> "Ok", val |-> x]
KeyNotExist == [ok |-> TRUE, kind |-> "KeyNotExist", val |-> 0]
NoExpire == [ok |-> TRUE, kind |-> "NoExpire", val |-> 0]
Unknown(x) == [ok |-> TRUE, kind |-> "Unknown", val |-> x]
InvalidResponse == [ok |-> FALSE, kind |-> "RESP", val |-> 0]

\* Ttl::from_response
Ttl_from_response(res) ==
    IF res.t # "Integer" THEN InvalidResponse
    ELSE IF res.i = -2 THEN NoExpire
    ELSE IF res.i = -1 THEN NoExpire
    ELSE IF res.i < 0 THEN Unknown(res.i)
    ELSE TtlOk(res.i)

\* Pttl::from_response
Pttl_from_response(res) ==
    IF res.t # "Integer" THEN InvalidResponse
    ELSE IF res.i = -2 THEN NoExpire
    ELSE IF res.i = -1 THEN NoExpire
    ELSE IF res.i < 0 THEN Unknown(res.i)
    ELSE TtlOk(res.i)

\* messages whose response receiver died with the context's futures are skipped
Orphan(m) == m.type = "Raw" /\ m.parent = "ctx"

\* what a supervised restart leaves of the calls: the response futures in the
\* context are dropped, their callers see the mailbox error as Disconnected
AfterRestart(cs) ==
    [c \in DOMAIN cs |->
        IF cs[c].stage = "ctx"
        THEN [cs[c] EXCEPT !.stage = "done", !.result = Failed("Disconnected")]
        ELSE cs[c]]

\* the restart with a slip: the frames in flight on the old connections are
\* still answered
RestartKeepsFrames(mb, cs) ==
    /\ nodes' = EmptyMap
    /\ wire' = wire
    /\ lastWritten' = EmptyMap
    /\ wait' = <<>>
    /\ futs' = {}
    /\ started' = FALSE
    /\ mailbox' = SelectSeq(mb, LAMBDA m : ~Orphan(m))
    /\ calls' = AfterRestart(cs)
    /\ UNCHANGED <<addrs, stale_slots, slots, nextId>>

\* Supervisor restart: wait and items cleared, Supervised::restarting, and
\* Actor::started due again
Restart(mb, cs) ==
    /\ nodes' = EmptyMap
    /\ wire' = EmptyMap
    /\ lastWritten' = EmptyMap
    /\ wait' = <<>>
    /\ futs' = {}
    /\ started' = FALSE
    /\ mailbox' = SelectSeq(mb, LAMBDA m : ~Orphan(m))
    /\ calls' = AfterRestart(cs)
    /\ UNCHANGED <<addrs, stale_slots, slots, nextId>>

\* the polling order with a slip: the mailbox is drained while connection
\* attempts are waited for
IdleUnwaited == started

\* the context polls the wait futures first, then drains the mailbox, then
\* polls the spawned items; a response future whose waiter has been resolved
\* is polled in the same pass, before the streams yield anything more
Idle == started /\ wait = <<>>
ItemsTurn == Idle /\ mailbox = <<>>
StreamTurn == ItemsTurn /\ \A f \in futs : f.res.kind = "none"

-----------------------------------------------------------------------------
(* Initial states *)

\* the scenarios explored: calls pipelined without faults, one call with
\* redirects and faults, one call followed through a long redirect chain,
Pipelined == [calls |-> MaxCalls, redirects |-> 1, faults |-> 0, asking |-> TRUE,
              scripts |-> FALSE, odd |-> 0]
Faulty == [calls |-> 1, redirects |-> MaxRedirects, faults |-> MaxFaults,
           asking |-> TRUE, scripts |-> FALSE, odd |-> 0]
Deep == [calls |-> 1, redirects |-> MAX_RETRY + DeepExtra, faults |-> 0,
         asking |-> FALSE, scripts |-> FALSE, odd |-> 0]
\* and script commands sent to a router started with two seeds
Scripted == [calls |-> MaxCalls, redirects |-> 0, faults |-> 0, asking |-> FALSE,
             scripts |-> TRUE, odd |-> 0]
\* and calls answered with an error that is no redirect or with a frame of
\* the wrong shape
Odd == [calls |-> MaxCalls, redirects |-> 0, faults |-> 0, asking |-> FALSE,
        scripts |-> FALSE, odd |-> MaxOdd]

\* and a router started with the same seed address given twice
Twin == [calls |-> 1, redirects |-> 1, faults |-> 0, asking |-> FALSE,
         scripts |-> FALSE, odd |-> 0]

\* and one call answered with a redirect that lacks the address
Garbled == [calls |-> 1, redirects |-> Truncated, faults |-> 0, asking |-> FALSE,
            scripts |-> FALSE, odd |-> 0]
\* and one call that the nodes may answer with ASK without end
Endless == [calls |-> 1, redirects |-> Forever, faults |-> 0, asking |-> FALSE,
            scripts |-> FALSE, odd |-> 0]

NoKs == [ok |-> FALSE, val |-> <<>>]
NoParsed == [ok |-> FALSE, kind |-> "-", val |-> 0]

NoReq == Nil
NoRoute == {}

NoProbe == [cmd |-> Del(<<>>), res |-> Nil, hasher |-> Hasher_new, fed |-> 0,
            ks |-> NoKs, parsed |-> NoParsed, req |-> NoReq,
            tab |-> <<>>, reg |-> EmptyMap, route |-> NoRoute]

\* the actor as RedisClusterActor::start constructs it, nothing sent yet
Constructed ==
    /\ nodes = EmptyMap
    /\ stale_slots = TRUE
    /\ slots = <<>>
    /\ started = FALSE
    /\ wait = <<>>
    /\ mailbox = <<>>
    /\ futs = {}
    /\ wire = EmptyMap
    /\ lastWritten = EmptyMap
    /\ calls = <<>>
    /\ nextId = 1
    /\ hist = [drop |-> {}, movedTo |-> None, stops |-> 0, lost |-> {},
               askConn |-> {}, panicked |-> FALSE]

Init ==
    /\ budget \in {Pipelined, Faulty, Deep, Scripted, Odd, Twin, Garbled}
    /\ addrs = IF budget.scripts THEN <<"A", "B">>
               ELSE IF budget = Twin THEN <<"A", "A">>
               ELSE <<"A">>
    /\ Constructed
    /\ probe = NoProbe

-----------------------------------------------------------------------------
(* Actions *)

\* Actor::started: connect to every seed address
RECURSIVE ConnectSeeds(_, _, _)
ConnectSeeds(w, n, seeds) ==
    IF seeds = <<>> THEN w
    ELSE ConnectSeeds(connect_to_node(w, n, Head(seeds)), n, Tail(seeds))

Started ==
    /\ ~started
    /\ ~hist.panicked
    /\ started' = TRUE
    /\ wait' = ConnectSeeds(wait, nodes, addrs)
    /\ UNCHANGED <<nextId, addrs, nodes, stale_slots, slots, mailbox, futs, wire,
                   lastWritten, calls, budget, hist>>
    /\ UNCHANGED probe

\* a caller sends a command to the router
SendCmd ==
    /\ budget.calls > 0
    /\ \E cmd \in IF budget.scripts THEN ScriptCmds ELSE Cmds :
          calls' = Append(calls,
                     [cmd |-> cmd, stage |-> "cmd", result |-> NoResult,
                      nMoved |-> 0, nAsk |-> 0, nWrites |-> 0,
                      lastAddr |-> "-", lastVia |-> "-", fresh |-> FALSE,
                      unreach |-> FALSE, afterStop |-> hist.stops > 0])
    /\ mailbox' = Append(mailbox, CmdMsg(Len(calls) + 1))
    /\ budget' = [budget EXCEPT !.calls = @ - 1]
    /\ UNCHANGED <<nextId, addrs, nodes, stale_slots, slots, started, wait, futs, wire,
                   lastWritten, hist>>
    /\ UNCHANGED probe

\* a caller sends Stop to the router
SendStop ==
    /\ budget.faults > 0
    /\ mailbox' = Append(mailbox, StopMsg)
    /\ budget' = [budget EXCEPT !.faults = @ - 1]
    /\ UNCHANGED <<nextId, addrs, nodes, stale_slots, slots, started, wait, futs, wire,
                   lastWritten, calls, hist>>
    /\ UNCHANGED probe

\* the connection attempt the context waits for completes: the closure of
\* connect_to_node runs with the resolver's response, a stream if the node
\* accepts the connection (a node that is up may refuse one while faults last)
ConnectDone ==
    /\ started
    /\ wait # <<>>
    /\ LET addr == wait[Len(wait)]
           rest == SubSeq(wait, 1, Len(wait) - 1)
       IN \E stream \in IF addr \notin Reachable THEN {FALSE}
                        ELSE IF budget.faults > 0 THEN {TRUE, FALSE} ELSE {TRUE} :
          LET connected == stream /\ addr \notin DOMAIN nodes
              refused == ~stream /\ addr \in Reachable
          IN /\ wait' = rest
             /\ IF connected
                THEN /\ nodes' = Put(nodes, addr, <<>>)
                     /\ wire' = Put(wire, addr, <<>>)
                     /\ lastWritten' = Put(lastWritten, addr, NoFrame)
                ELSE UNCHANGED <<nodes, wire, lastWritten>>
             /\ budget' = IF refused THEN [budget EXCEPT !.faults = @ - 1]
                          ELSE budget
             /\ calls' = [c \in DOMAIN calls |->
                            IF refused /\ \E k \in DOMAIN mailbox :
                                             /\ mailbox[k].type = "Raw"
                                             /\ mailbox[k].call = c
                                             /\ mailbox[k].addr = addr
                            THEN [calls[c] EXCEPT !.unreach = TRUE]
                            ELSE calls[c]]
             /\ IF NeedsSlots(connected, stale_slots)
                THEN \* retrieve_cluster_slots(addr)
                     /\ mailbox' = Append(mailbox,
                           RawRequest(0, "slots", addr, 0, "first", 0, "ctx"))
                     /\ hist' = [hist EXCEPT !.movedTo = None,
                                             !.lost = @ \ {addr},
                                             !.askConn = @ \ {addr}]
                ELSE /\ mailbox' = mailbox
                     /\ hist' = [hist EXCEPT !.lost =
                                     IF connected THEN @ \ {addr}
                                     ELSE IF refused THEN @ \cup {addr}
                                     ELSE @,
                                             !.askConn = @ \ {addr}]
    /\ UNCHANGED <<nextId, addrs, stale_slots, slots, started, futs>>
    /\ UNCHANGED probe

\* Handler<M>::handle
HandleCmd ==
    /\ Idle
    /\ mailbox # <<>>
    /\ Head(mailbox).type = "Cmd"
    /\ LET c == Head(mailbox).call
           ks == key_slot(calls[c].cmd)
       IN IF ~ks.ok
          THEN /\ calls' = [calls EXCEPT ![c].stage = "done",
                                         ![c].result = Failed("MultipleSlot")]
               /\ mailbox' = Tail(mailbox)
          ELSE \E addr \in choose_node_addr(slots, nodes, ks.val) :
                 IF addr = None
                 THEN /\ calls' = [calls EXCEPT ![c].stage = "done",
                                                ![c].result = Failed("NotConnected")]
                      /\ mailbox' = Tail(mailbox)
                 ELSE /\ calls' = [calls EXCEPT ![c].stage = "raw"]
                      /\ mailbox' = Append(Tail(mailbox),
                            RawRequest(c, "cmd", addr, 0, "first", 0, "arbiter"))
    /\ UNCHANGED <<nextId, addrs, nodes, stale_slots, slots, started, wait, futs, wire,
                   lastWritten, budget, hist>>
    /\ UNCHANGED probe

\* Handler<RawRequest<M>>::handle, up to the future it returns
HandleRaw ==
    /\ Idle
    /\ mailbox # <<>>
    /\ Head(mailbox).type = "Raw"
    /\ LET m == Head(mailbox)
           c == m.call
           id == nextId
       IN /\ mailbox' = Tail(mailbox)
          /\ IF m.addr \in DOMAIN nodes
             THEN \* Operation::Enqueue
                  /\ nodes' = [nodes EXCEPT ![m.addr] = PushBack(@, id)]
                  /\ wire' = [wire EXCEPT ![m.addr] = Append(@,
                        [id |-> id, call |-> c, kind |-> m.kind, via |-> m.via,
                         src |-> m.src])]
                  /\ lastWritten' = [lastWritten EXCEPT ![m.addr] =
                        [id |-> id, call |-> c, kind |-> m.kind, via |-> m.via,
                         src |-> m.src]]
                  /\ nextId' = NextId(nextId)
                  /\ futs' = futs \cup
                        {[id |-> id, call |-> c, kind |-> m.kind, addr |-> m.addr,
                          retry |-> m.retry, via |-> m.via, res |-> NoRes]}
                  /\ calls' = IF m.kind = "cmd"
                              THEN [calls EXCEPT ![c].stage = "ctx",
                                                 ![c].nWrites = Tally(@),
                                                 ![c].lastAddr = m.addr,
                                                 ![c].lastVia = m.via]
                              ELSE calls
             ELSE \* Operation::Exit
                  /\ calls' = IF m.kind = "cmd"
                              THEN [calls EXCEPT ![c].stage = "done",
                                                 ![c].result = Failed("NotConnected")]
                              ELSE calls
                  /\ UNCHANGED <<nodes, wire, lastWritten, futs, nextId>>
    /\ UNCHANGED <<addrs, stale_slots, slots, started, wait, budget, hist>>
    /\ UNCHANGED probe

\* the Stop message: the context stops and the supervisor restarts the actor
HandleStop ==
    /\ Idle
    /\ mailbox # <<>>
    /\ Head(mailbox).type = "Stop"
    /\ Restart(Tail(mailbox), calls)
    /\ hist' = [hist EXCEPT !.stops = 1]
    /\ UNCHANGED budget
    /\ UNCHANGED probe

\* StreamHandler::handle: the node answers the oldest unanswered frame and the
\* router hands the reply to the waiter at the head of the node's queue
StreamHandle ==
    /\ StreamTurn
    /\ \E a \in DOMAIN nodes :
          /\ wire[a] # <<>>
          /\ \E res \in Replies(a, Head(wire[a]), budget) :
                /\ wire' = [wire EXCEPT ![a] = Tail(@)]
                /\ budget' = IF res.kind \in {"MOVED", "ASK"}
                             THEN [budget EXCEPT !.redirects = Spent(@)]
                             ELSE IF res.kind \in OddKinds
                             THEN [budget EXCEPT !.odd = @ - 1]
                             ELSE budget
                /\ IF nodes[a] # <<>>
                   THEN /\ nodes' = [nodes EXCEPT ![a] = pop_front(@)]
                        /\ futs' = {IF f.id = Head(nodes[a])
                                    THEN [f EXCEPT !.res = res] ELSE f : f \in futs}
                   ELSE UNCHANGED <<nodes, futs>>
    /\ UNCHANGED <<nextId, addrs, stale_slots, slots, started, wait, mailbox,
                   lastWritten, calls, hist>>
    /\ UNCHANGED probe

\* StreamHandler::error: the head waiter gets the stream's error, then
\* Running::Stop stops the context and the supervisor restarts the actor
StreamError ==
    /\ StreamTurn
    /\ budget.faults > 0
    /\ \E a \in DOMAIN nodes :
          hist' = [hist EXCEPT !.drop =
                     IF nodes[a] = <<>> THEN {}
                     ELSE {"Redis"} \cup
                          {"Disconnected" : i \in 2..Len(nodes[a])},
                               !.lost = @ \cup {a}]
    /\ budget' = [budget EXCEPT !.faults = @ - 1]
    /\ Restart(mailbox, calls)
    /\ UNCHANGED probe

\* WriteHandler::error: Running::Stop, the supervisor restarts the actor
WriteError ==
    /\ StreamTurn
    /\ budget.faults > 0
    /\ \E a \in DOMAIN nodes :
          hist' = [hist EXCEPT !.drop =
                     {"Disconnected" : i \in 1..Len(nodes[a])},
                               !.lost = @ \cup {a}]
    /\ budget' = [budget EXCEPT !.faults = @ - 1]
    /\ Restart(mailbox, calls)
    /\ UNCHANGED probe

\* the response future of a RawRequest, MOVED arm: mark the table stale,
\* connect to the named address and send the request to it again
HandleMoved ==
    /\ ItemsTurn
    /\ \E f \in futs :
          /\ f.res.kind = "MOVED"
          /\ MovedGuard(f.retry)
          /\ f.res.target # NoTarget
          /\ futs' = futs \ {f}
          /\ stale_slots' = TRUE
          /\ wait' = connect_to_node(wait, nodes, f.res.target)
          /\ mailbox' = Append(mailbox,
                RawRequest(f.call, f.kind, f.res.target, MovedRetry(f.retry),
                           "MOVED", f.id, "ctx"))
          /\ calls' = IF f.kind = "cmd"
                      THEN [calls EXCEPT ![f.call].nMoved = @ + 1,
                                         ![f.call].fresh = FALSE,
                                         ![f.call].unreach =
                                             @ \/ f.res.target \notin Reachable]
                      ELSE calls
          /\ hist' = [hist EXCEPT !.movedTo = f.res.target]
    /\ UNCHANGED <<nextId, addrs, nodes, slots, started, wire, lastWritten, budget>>
    /\ UNCHANGED probe

\* the response future of a RawRequest, ASK arm: connect to the named
\* address, send ASKING to it and then the request
HandleAsk ==
    /\ ItemsTurn
    /\ \E f \in futs :
          /\ f.res.kind = "ASK"
          /\ f.res.target # NoTarget
          /\ ~(f.res.kind = "MOVED" /\ MovedGuard(f.retry))
          /\ futs' = futs \ {f}
          /\ wait' = connect_to_node(wait, nodes, f.res.target)
          /\ mailbox' = mailbox \o AskSends(f, f.res.target)
          /\ calls' = IF f.kind = "cmd"
                      THEN [calls EXCEPT ![f.call].nAsk = Tally(@),
                                         ![f.call].unreach =
                                             @ \/ f.res.target \notin Reachable]
                      ELSE calls
          /\ hist' = [hist EXCEPT !.askConn =
                         IF f.res.target \in DOMAIN nodes THEN @
                         ELSE @ \cup {f.res.target}]
    /\ UNCHANGED <<nextId, addrs, nodes, stale_slots, slots, started, wire, lastWritten,
                   budget>>
    /\ UNCHANGED probe

\* the response future of a RawRequest, MOVED or ASK arm, on a reply that
\* lacks a token: values.next().unwrap() panics on the thread that runs the
\* router, and nothing of the router runs any more
UnwrapNone ==
    /\ ItemsTurn
    /\ \E f \in futs :
          /\ \/ f.res.kind = "MOVED" /\ MovedGuard(f.retry)
             \/ f.res.kind = "ASK"
          /\ f.res.target = NoTarget
    /\ started' = FALSE
    /\ nodes' = EmptyMap
    /\ wire' = EmptyMap
    /\ lastWritten' = EmptyMap
    /\ futs' = {}
    /\ budget' = [budget EXCEPT !.calls = 0]
    /\ hist' = [hist EXCEPT !.panicked = TRUE]
    /\ UNCHANGED <<nextId, addrs, stale_slots, slots, wait, mailbox, calls>>
    /\ UNCHANGED probe

\* the response future of a RawRequest, last arms: the reply is parsed by
\* from_response and returned
HandleReply ==
    /\ ItemsTurn
    /\ \E f \in futs :
          /\ f.kind \in {"cmd", "asking"}
          /\ f.res.kind # "none"
          /\ ~(f.res.kind = "MOVED" /\ MovedGuard(f.retry))
          /\ f.res.kind # "ASK"
          /\ futs' = futs \ {f}
          /\ calls' = IF f.kind = "cmd"
                      THEN [calls EXCEPT ![f.call].stage = "done",
                                         ![f.call].result = from_response(f.res)]
                      ELSE calls
    /\ UNCHANGED <<nextId, addrs, nodes, stale_slots, slots, started, wait, mailbox, wire,
                   lastWritten, budget, hist>>
    /\ UNCHANGED probe

\* the response future of the CLUSTER SLOTS request and the closure of
\* retrieve_cluster_slots on its result
RefreshSlots ==
    /\ ItemsTurn
    /\ \E f \in futs :
          /\ f.kind = "slots"
          /\ f.res.kind # "none"
          /\ futs' = futs \ {f}
          /\ LET parsed == ClusterSlots_from_response(f.res.table)
             IN IF parsed.ok
                THEN /\ stale_slots' = FALSE
                     /\ slots' = NewSlots(parsed.val)
                     /\ wait' = ConnectMasters(wait, nodes, parsed.val)
                     /\ calls' = [c \in DOMAIN calls |->
                                    [calls[c] EXCEPT !.fresh = TRUE]]
                ELSE /\ slots' = RefreshFailed(slots)
                     /\ UNCHANGED <<stale_slots, wait, calls>>
    /\ UNCHANGED <<nextId, addrs, nodes, started, mailbox, wire, lastWritten,
                   budget, hist>>
    /\ UNCHANGED probe

Next ==
    \/ Started
    \/ SendCmd
    \/ SendStop
    \/ ConnectDone
    \/ HandleCmd
    \/ HandleRaw
    \/ HandleStop
    \/ StreamHandle
    \/ StreamError
    \/ WriteError
    \/ HandleMoved
    \/ HandleAsk
    \/ UnwrapNone
    \/ HandleReply
    \/ RefreshSlots

Spec == Init /\ [][Next]_vars

-----------------------------------------------------------------------------
(* The router under fair scheduling: the context polls whatever is ready,   *)
(* and every node answers each frame written to it. The nodes may answer    *)
(* with ASK as often as they like.                                          *)

FairInit ==
    /\ budget = Endless
    /\ addrs = <<"A">>
    /\ Constructed
    /\ probe = NoProbe

FairNext ==
    \/ Started
    \/ SendCmd
    \/ ConnectDone
    \/ HandleCmd
    \/ HandleRaw
    \/ StreamHandle
    \/ HandleAsk
    \/ HandleReply
    \/ RefreshSlots

\* the context runs whatever it has ready: the wait futures, the mailbox, the
\* spawned futures; each node replies to the oldest frame it has not answered
Fairness ==
    /\ WF_vars(Started)
    /\ WF_vars(ConnectDone)
    /\ WF_vars(HandleCmd)
    /\ WF_vars(HandleRaw)
    /\ WF_vars(StreamHandle)
    /\ WF_vars(HandleAsk)
    /\ WF_vars(HandleReply)
    /\ WF_vars(RefreshSlots)

FairSpec == FairInit /\ [][FairNext]_vars /\ Fairness

-----------------------------------------------------------------------------
(* The command contract on its own: commands are taken through hash_keys,   *)
(* key_slot and from_response with no router involved                       *)

KeyTagAB == <<123, 97, 125, 98>>                  \* "{a}b"
KeyTagATagB == <<123, 97, 125, 123, 98, 125>>     \* "{a}{b}"
KeyEmptyTagX == <<123, 125, 120>>                 \* "{}x"
KeyUser42 == <<117, 115, 101, 114, 52, 50>>       \* "user42"
KeyUser42Profile ==                               \* "{user42}:profile"
    <<123, 117, 115, 101, 114, 52, 50, 125, 58, 112, 114, 111, 102, 105, 108, 101>>
KeyUser42Inbox ==                                 \* "{user42}:inbox"
    <<123, 117, 115, 101, 114, 52, 50, 125, 58, 105, 110, 98, 111, 120>>

DelKeys == {KeyA, KeyB, KeyTagAB, KeyTagATagB}
GetKeys == DelKeys \cup {KeyActix, KeyEmptyTagX, KeyUser42, KeyUser42Profile,
                         KeyUser42Inbox}

KeySeqs == UNION {[1..n -> DelKeys] : n \in 0..MaxKeys}

\* replies a node may give to TTL and PTTL, and replies of other shapes
TtlReplies == {Integer(x) : x \in {-3, -2, -1, 0, 1, 120}}
                 \cup {Nil, BulkString("1"), SimpleString("OK"), Error("ERR"),
                       Array(<<>>)}

ProbeOf(cmd, res) == [NoProbe EXCEPT !.cmd = cmd, !.res = res]

\* slot tables given to choose_node_addr: two halves, ranges that overlap in
\* either order, a table with a gap, and no table
Range(start, end, addr) == [start |-> start, end |-> end, master_addr |-> addr]
Tables == { <<Range(0, 8191, "A"), Range(8192, 16383, "B")>>,
            <<Range(0, 16383, "A"), Range(8192, 16383, "B")>>,
            <<Range(8192, 16383, "B"), Range(0, 16383, "A")>>,
            <<Range(0, 8191, "A")>>,
            <<>> }

\* registries given to choose_node_addr
Registries == { EmptyMap, [a \in {"A"} |-> <<>>], [a \in {"A", "B"} |-> <<>>] }

RouteProbe(cmd, tab, reg) == [NoProbe EXCEPT !.cmd = cmd, !.tab = tab, !.reg = reg]

\* the arguments given to IncrBy and DecrBy
Increments == {-1, 0, 5}

Probes ==
    {ProbeOf(Get(k), Nil) : k \in GetKeys}
       \cup {ProbeOf(Del(ks), Nil) : ks \in KeySeqs}
       \cup {ProbeOf(EvalSha(<<KeyActix, KeyActix>>), Nil), ProbeOf(ScriptLoad(15206), Nil)}
       \cup {ProbeOf(Ttl(KeyA), r) : r \in TtlReplies}
       \cup {ProbeOf(Pttl(KeyA), r) : r \in TtlReplies}
       \cup {ProbeOf(IncrBy(KeyA, n), Nil) : n \in Increments}
       \cup {ProbeOf(DecrBy(KeyB, n), Nil) : n \in Increments}
       \cup {RouteProbe(cmd, tab, reg) :
                 cmd \in {Get(KeyA), Get(KeyB), Del(<<>>)},
                 tab \in Tables, reg \in Registries}

FnInit ==
    /\ budget = [calls |-> 0, redirects |-> 0, faults |-> 0, asking |-> FALSE,
                 scripts |-> FALSE, odd |-> 0]
    /\ addrs = <<"A">>
    /\ Constructed
    /\ probe \in Probes

\* one turn of the loop of Del::hash_keys / EvalSha::hash_keys: the next key
\* is fed to the hasher; an error ends the loop
FeedKey ==
    /\ probe.cmd.name \in {"DEL", "EVALSHA"}
    /\ probe.hasher.ok
    /\ probe.fed < Len(probe.cmd.keys)
    /\ probe' = [probe EXCEPT !.hasher = hash_str(@, probe.cmd.keys[probe.fed + 1]),
                              !.fed = @ + 1]
    /\ UNCHANGED router

\* hash_keys of a command that feeds one key or sets its slot
FeedOnce ==
    /\ probe.cmd.name \in {"GET", "TTL", "PTTL", "SCRIPT LOAD", "INCRBY", "DECRBY"}
    /\ probe.fed = 0
    /\ probe' = [probe EXCEPT !.hasher = Command_hash_keys(probe.cmd, @),
                              !.fed = 1]
    /\ UNCHANGED router

\* Command::key_slot
KeySlot ==
    /\ probe.ks = NoKs
    /\ probe' = [probe EXCEPT !.ks = key_slot(probe.cmd)]
    /\ UNCHANGED router

\* Ttl::from_response on the reply
TtlFromResponse ==
    /\ probe.cmd.name = "TTL"
    /\ probe.parsed = NoParsed
    /\ probe' = [probe EXCEPT !.parsed = Ttl_from_response(probe.res)]
    /\ UNCHANGED router

\* Pttl::from_response on the reply
PttlFromResponse ==
    /\ probe.cmd.name = "PTTL"
    /\ probe.parsed = NoParsed
    /\ probe' = [probe EXCEPT !.parsed = Pttl_from_response(probe.res)]
    /\ UNCHANGED router

\* M::into_request
IntoRequest ==
    /\ probe.cmd.name \in {"GET", "DEL", "TTL", "PTTL", "INCRBY", "DECRBY"}
    /\ probe.req = NoReq
    /\ probe' = [probe EXCEPT !.req = into_request(probe.cmd)]
    /\ UNCHANGED router

\* choose_node_addr on the slot of the command, as Handler<M> calls it
ChooseNodeAddr ==
    /\ probe.ks # NoKs
    /\ probe.ks.ok
    /\ probe.route = NoRoute
    /\ probe' = [probe EXCEPT !.route =
                     choose_node_addr(probe.tab, probe.reg, probe.ks.val)]
    /\ UNCHANGED router

FnNext ==
    \/ ChooseNodeAddr
    \/ IntoRequest
    \/ FeedKey
    \/ FeedOnce
    \/ KeySlot
    \/ TtlFromResponse
    \/ PttlFromResponse

FnSpec == FnInit /\ [][FnNext]_vars

-----------------------------------------------------------------------------
(* Type invariant *)

TypeOK ==
    /\ DOMAIN nodes \subseteq Reachable
    /\ DOMAIN wire = DOMAIN nodes
    /\ stale_slots \in BOOLEAN
    /\ started \in BOOLEAN
    /\ \A i \in DOMAIN wait : wait[i] \in Addrs
    /\ \A f, g \in futs : f.id = g.id => f = g
    /\ \A f \in futs : f.id < nextId

-----------------------------------------------------------------------------
(* Properties *)

CallIds == DOMAIN calls

\* the requests and response futures that carry the command of call c
CmdMsgsOf(c) ==
    {i \in DOMAIN mailbox :
        mailbox[i].type = "Raw" /\ mailbox[i].kind = "cmd" /\ mailbox[i].call = c}
CmdFutsOf(c) == {f \in futs : f.kind = "cmd" /\ f.call = c}

\* the slots of the keys the callers use
SlotOfKey == [k \in {KeyA, KeyB, KeyActix} |-> slot(k)]

\* the keys of the command do not all hash to one slot
MultiSlot(cmd) ==
    \E i, j \in DOMAIN cmd.keys :
        i < j /\ SlotOfKey[cmd.keys[i]] # SlotOfKey[cmd.keys[j]]

\* the caller of c was handed a MOVED or ASK error
SawRedirect(c) ==
    calls[c].result.kind = "Redis" /\ calls[c].result.text \in {"MOVED", "ASK"}

\* MOVED/ASK replies the command of call c has received
Redirects(c) ==
    calls[c].nMoved + calls[c].nAsk + (IF SawRedirect(c) THEN 1 ELSE 0)

\* nothing is left to do but for the callers and the network
Quiescent ==
    /\ started
    /\ wait = <<>>
    /\ mailbox = <<>>
    /\ futs = {}
    /\ \A a \in DOMAIN wire : wire[a] = <<>>

\* C1: on every connection the k-th reply read resolves the waiter of the
\* k-th frame written: a waiter is only ever resolved with the reply to its
\* own frame.
C1_ReplyOrder ==
    \A f \in futs : f.res.kind # "none" => f.res.for = f.id

\* C1 witness: a waiter is resolved while a later waiter of another call is
\* still queued on the same connection.
C1_Witness ==
    \E f \in futs :
        /\ f.res.kind # "none"
        /\ f.kind = "cmd"
        /\ f.addr \in DOMAIN nodes
        /\ \E g \in futs :
              g.kind = "cmd" /\ g.call # f.call /\ g.addr = f.addr
              /\ g.res.kind = "none" /\ nodes[f.addr] # <<>>
              /\ Head(nodes[f.addr]) = g.id

\* C2: when a connection drops, every waiter pending on it receives
\* Disconnected and nothing else.
C2_DropDisconnects ==
    hist.drop \subseteq {"Disconnected"}

\* C3: a call answered with MOVED only is re-dispatched at most MAX_RETRY
\* times, its attempt counter is the number of MOVED replies handled so far,
\* and the MOVED received at attempt MAX_RETRY goes to the caller with no
\* further frame written.
C3_MovedBound ==
    \A c \in CallIds :
        calls[c].nAsk = 0 =>
            /\ calls[c].nWrites <= MAX_RETRY + 1
            /\ calls[c].nMoved <= MAX_RETRY
            /\ \A f \in CmdFutsOf(c) : f.retry = calls[c].nMoved
            /\ \A i \in CmdMsgsOf(c) : mailbox[i].retry = calls[c].nMoved
            /\ SawRedirect(c) =>
                  /\ calls[c].nMoved = MAX_RETRY
                  /\ calls[c].nWrites = MAX_RETRY + 1
                  /\ CmdFutsOf(c) = {}
                  /\ CmdMsgsOf(c) = {}

\* C3 witness: a call answered with MOVED only had the last MOVED returned.
C3_Witness ==
    \E c \in CallIds : calls[c].nAsk = 0 /\ SawRedirect(c)

\* C4: every ASK counts against the retry bound as MOVED does: the attempt
\* counter is the number of redirects handled so far and a call is
\* re-dispatched at most MAX_RETRY times whatever the mix of ASK and MOVED.
C4_AskCounts ==
    \A c \in CallIds :
        /\ calls[c].nWrites <= MAX_RETRY + 1
        /\ \A f \in CmdFutsOf(c) : f.retry = calls[c].nMoved + calls[c].nAsk
        /\ \A i \in CmdMsgsOf(c) :
              mailbox[i].retry = calls[c].nMoved + calls[c].nAsk

\* call c has failed with MultipleSlot or is still in the mailbox, and no
\* request, frame or waiter exists or existed for it
NeverDispatched(c) ==
    /\ calls[c].nWrites = 0
    /\ CmdMsgsOf(c) = {}
    /\ CmdFutsOf(c) = {}
    /\ calls[c].stage \in {"cmd", "done"}
    /\ calls[c].stage = "done" => calls[c].result.kind = "MultipleSlot"

\* C5: a command whose keys hash to more than one slot fails at once with
\* MultipleSlot: no request, frame or waiter ever exists for it, and the step
\* that fails it leaves slot table, registry and connections as they were.
C5_MultipleSlot ==
    [][\A c \in DOMAIN calls' :
          MultiSlot(calls'[c].cmd) =>
             /\ NeverDispatched(c)'
             /\ (c \in CallIds /\ calls[c].stage = "cmd" /\ calls'[c].stage = "done")
                => UNCHANGED <<nodes, slots, stale_slots, wire, lastWritten,
                               futs, wait>>]_vars

\* C5 witness: a call has failed with MultipleSlot.
C5_Witness ==
    \E c \in CallIds : calls[c].result.kind = "MultipleSlot"

\* C6: a call that received fewer than MAX_RETRY redirects, all naming
\* reachable nodes, never hands a MOVED or ASK error (nor NotConnected) to its
\* caller; unless the connection is lost it ends with the reply of the node
\* its request was sent to last.
C6_RedirectsRecovered ==
    \A c \in CallIds :
        (Redirects(c) > 0 /\ Redirects(c) < MAX_RETRY /\ ~calls[c].unreach) =>
            /\ calls[c].result.kind \in {"none", "val", "Disconnected"}
            /\ calls[c].result.kind = "val" =>
                  calls[c].result.node = calls[c].lastAddr

\* C6 witness: a call redirected by an ASK and by a MOVED got a value.
C6_Witness ==
    \E c \in CallIds :
        calls[c].nMoved > 0 /\ calls[c].nAsk > 0 /\ calls[c].result.kind = "val"

\* C7: the frame re-sent after an ASK is written right after the ASKING
\* frame spawned by the same ASK, on the same connection.
C7_AskingFirst ==
    [][\A a \in DOMAIN lastWritten' :
          (lastWritten'[a].via = "ASK"
              /\ (a \notin DOMAIN lastWritten \/ lastWritten[a] # lastWritten'[a]))
          => /\ a \in DOMAIN lastWritten
             /\ lastWritten[a].kind = "asking"
             /\ lastWritten[a].via = "spawn"
             /\ lastWritten[a].src = lastWritten'[a].src
             /\ lastWritten[a].call = lastWritten'[a].call]_vars

\* C7 witness: a request re-sent after ASK was written to a node that is not
\* a seed, with ASKING still unanswered in front of it.
C7_Witness ==
    \E a \in DOMAIN wire :
        /\ a # addrs[1]
        /\ Len(wire[a]) >= 2
        /\ wire[a][Len(wire[a])].via = "ASK"
        /\ wire[a][Len(wire[a]) - 1].kind = "asking"

\* C8: after a MOVED the request is re-sent only once a slot-table refresh
\* has completed.
C8_RefreshBeforeResend ==
    [][\A c \in CallIds :
          (calls'[c].nWrites = calls[c].nWrites + 1 /\ calls'[c].lastVia = "MOVED")
          => calls[c].fresh]_vars

\* C9: after any MOVED a CLUSTER SLOTS request is issued: the router never
\* comes to rest with a MOVED to a reachable node seen and no refresh
\* requested since.
C9_RefreshAfterMoved ==
    ~(Quiescent /\ hist.movedTo \in Reachable)

\* C10: a Get sent after a Stop, and not redirected, is answered with the
\* stored value, never with an error.
C10_GetAfterStop ==
    \A c \in CallIds :
        (calls[c].afterStop /\ calls[c].cmd.name = "GET"
            /\ calls[c].nMoved = 0 /\ calls[c].nAsk = 0
            /\ calls[c].stage = "done")
        => calls[c].result.kind = "val"

\* C11: a connection that was lost to an I/O error, or whose attempt was
\* refused, is made again once the node accepts connections: when no further
\* fault occurs the router never comes to rest without it.
C11_Reconnects ==
    ~(Quiescent /\ budget.faults = 0 /\ hist.lost # {})

\* the command has a slot: it carries one, or it has keys
Slotted(cmd) == cmd.name = "SCRIPT LOAD" \/ cmd.keys # <<>>
SlotOf(cmd) == IF cmd.name = "SCRIPT LOAD" THEN cmd.slot ELSE slot(cmd.keys[1])

\* the slot table has a range for the slot of the command
Covered(cmd) ==
    /\ Slotted(cmd)
    /\ \E k \in DOMAIN slots :
          slots[k].start <= SlotOf(cmd) /\ SlotOf(cmd) <= slots[k].end

\* C12: while no node is connected a command whose keys share a slot ends
\* with NotConnected: Handler<M> fails it at once when the table has no
\* range for it, and the request sent to the table's node otherwise finds no
\* connection; no frame is written, no waiter is queued, and at rest no such
\* call is left pending.
C12_NotConnected ==
    [][nodes = EmptyMap =>
          \A c \in CallIds :
              ~MultiSlot(calls[c].cmd) =>
                 /\ calls'[c].stage # calls[c].stage =>
                       /\ wire' = wire /\ futs' = futs /\ nodes' = nodes
                       /\ calls'[c].nWrites = calls[c].nWrites
                       /\ IF calls[c].stage = "cmd" /\ Covered(calls[c].cmd)
                          THEN calls'[c].stage = "raw"
                          ELSE /\ calls'[c].stage = "done"
                               /\ calls'[c].result.kind = "NotConnected"
                 /\ (Quiescent' /\ nodes' = EmptyMap) => calls'[c].stage = "done"
      ]_vars

\* C12 witness: the seed refused the connection and a command was failed
\* with NotConnected, nothing written.
C12_Witness ==
    /\ Idle /\ nodes = EmptyMap /\ hist.lost # {}
    /\ \E c \in CallIds :
          /\ calls[c].stage = "done"
          /\ calls[c].result.kind = "NotConnected"
          /\ calls[c].nWrites = 0

\* the ranges of the table lie in [0, SLOT_COUNT), start <= end, and no two
\* of them share a slot
DisjointRanges(tab) ==
    /\ \A k \in DOMAIN tab :
          0 <= tab[k].start /\ tab[k].start <= tab[k].end /\ tab[k].end < SLOT_COUNT
    /\ \A j, k \in DOMAIN tab :
          j < k => (tab[j].end < tab[k].start \/ tab[k].end < tab[j].start)

\* the table tab lists the entries of the reply: their bounds, and the first
\* node of each as master
TableOfReply(tab, reply) ==
    /\ reply.t = "Array"
    /\ Len(tab) = Len(reply.a)
    /\ \A k \in DOMAIN tab :
          /\ tab[k].start = reply.a[k].a[1].i
          /\ tab[k].end = reply.a[k].a[2].i
          /\ Len(reply.a[k].a) >= 3
          /\ tab[k].master_addr = reply.a[k].a[3].a[1].s

C14_FailedRefreshKeeps ==
    [][(\/ \E f \in futs \ futs' :
             f.kind = "slots" /\ (f.res.kind = "none" \/ f.res.table \in BadLayouts)
        \/ /\ mailbox # <<>>
           /\ Head(mailbox).type = "Raw" /\ Head(mailbox).kind = "slots"
           /\ Head(mailbox).addr \notin DOMAIN nodes
           /\ mailbox' # mailbox)
       => slots' = slots]_vars

\* C14 witness: the router is at rest, the table is installed and marked
\* stale, and the refresh requested since the last MOVED has failed.
C14_Witness ==
    Quiescent /\ stale_slots /\ slots # <<>> /\ hist.movedTo = None

\* C15: a CLUSTER SLOTS reply with an entry that lists no node is installed
\* without that entry: the refresh succeeds with the other entries.
C15_ZeroNodesSkipped ==
    [][\A f \in futs \ futs' :
          (f.kind = "slots" /\ f.res.table = ZeroNodeLayout) =>
             /\ slots' = <<[start |-> 0, end |-> 8191, master_addr |-> "A"]>>
             /\ ~stale_slots']_vars

\* C16: the frame of a call is written once when it is dispatched and once
\* more for every MOVED or ASK it receives, never otherwise; once the caller
\* has its result, a Disconnected included, no request, waiter or frame of
\* the call is left and none is written again.
C16_NoReplay ==
    [][\A c \in CallIds :
          /\ calls'[c].nWrites <= 1 + calls'[c].nMoved + calls'[c].nAsk
          /\ calls[c].stage = "done" =>
                /\ calls'[c].nWrites = calls[c].nWrites
                /\ CmdMsgsOf(c) = {} /\ CmdFutsOf(c) = {}
                /\ \A a \in DOMAIN wire' : \A k \in DOMAIN wire'[a] :
                      (wire'[a][k].call = c /\ wire'[a][k].kind = "cmd")
                      => (a \in DOMAIN wire /\ wire'[a][k] \in
                              {wire[a][j] : j \in DOMAIN wire[a]})]_vars

\* C16 witness: a call whose frame was written got Disconnected, the router
\* has reconnected to the node and is at rest, and the frame is not on the
\* connection again.
C16_Witness ==
    /\ Quiescent
    /\ \E c \in CallIds :
          /\ calls[c].result.kind = "Disconnected"
          /\ calls[c].nWrites >= 1
          /\ calls[c].lastAddr \in DOMAIN nodes

\* call c was dispatched once and never redirected
SentOnce(c) ==
    calls[c].nWrites = 1 /\ calls[c].nMoved = 0 /\ calls[c].nAsk = 0

\* C19: a command that carries its slot is sent to the node a keyed command
\* of the same slot is sent to while the slot table stays the same; here the
\* table has been empty throughout.
C19_PinnedSameNode ==
    \A c, d \in CallIds :
        (/\ slots = <<>>
         /\ calls[c].cmd.name = "SCRIPT LOAD" /\ calls[d].cmd.name = "EVALSHA"
         /\ ~MultiSlot(calls[d].cmd)
         /\ SlotOf(calls[c].cmd) = SlotOf(calls[d].cmd)
         /\ SentOnce(c) /\ SentOnce(d))
        => calls[c].lastAddr = calls[d].lastAddr

\* C21: when the response future of a command handles a reply that is no
\* MOVED or ASK (a value, an error of another text, a frame of the wrong
\* shape), the caller gets what from_response makes of it, a value or a
\* protocol error, in that step; nothing is sent or written again, no
\* connection is attempted, and slot table, stale flag and registry stay as
\* they are.
C21_ReplySurfaced ==
    [][\A f \in futs \ futs' :
          (started' /\ f.kind = "cmd" /\ f.res.kind \in {"val"} \cup OddKinds) =>
             /\ calls[f.call].stage = "ctx"
             /\ calls'[f.call].stage = "done"
             /\ calls'[f.call].result =
                   [kind |-> IF f.res.kind = "val" THEN "val" ELSE "Redis",
                    node |-> f.res.node,
                    text |-> IF f.res.kind = "val" THEN "-" ELSE f.res.kind]
             /\ calls'[f.call].nWrites = calls[f.call].nWrites
             /\ CmdMsgsOf(f.call)' = {}
             /\ UNCHANGED <<mailbox, wire, lastWritten, wait, slots, stale_slots,
                            nodes>>]_vars

\* C21 witness: one call was answered with a frame of the wrong shape and
\* its caller has the protocol error, another call on the same connection
\* has its value; each frame was written once and the router is at rest.
C21_Witness ==
    /\ Quiescent
    /\ \E c, d \in CallIds :
          /\ calls[c].result = [kind |-> "Redis", node |-> calls[c].lastAddr,
                                text |-> "shape"]
          /\ calls[d].result = [kind |-> "val", node |-> calls[c].lastAddr,
                                text |-> "-"]
          /\ calls[c].nWrites = 1 /\ calls[d].nWrites = 1

\* C22: the request into_request makes of a command is an Array whose
\* elements are all BulkStrings, the first one a command name.
C22_RequestBulkStrings ==
    probe.req # NoReq =>
        /\ probe.req.t = "Array"
        /\ Len(probe.req.a) >= 1
        /\ \A k \in DOMAIN probe.req.a : probe.req.a[k].t = "BulkString"
        /\ probe.req.a[1].s \in {"GET", "DEL", "TTL", "PTTL", "INCRBY", "DECRBY"}

\* the ranges of the table that contain slot s
Containing(tab, s) == {k \in DOMAIN tab : tab[k].start <= s /\ s <= tab[k].end}

\* C23: a command whose slot is Some(s) is routed to the master of the first
\* range of the table, in table order, that contains s.
C23_FirstRangeWins ==
    (probe.route # NoRoute /\ probe.ks.val # <<>>
        /\ Containing(probe.tab, probe.ks.val[1]) # {}) =>
       \E k \in Containing(probe.tab, probe.ks.val[1]) :
          /\ \A j \in Containing(probe.tab, probe.ks.val[1]) : k <= j
          /\ probe.route = {probe.tab[k].master_addr}

\* C23 witness: the slot lies in two ranges with different masters and the
\* command has been routed.
C23_Witness ==
    /\ probe.route # NoRoute
    /\ probe.ks.val # <<>>
    /\ \E j, k \in Containing(probe.tab, probe.ks.val[1]) :
          probe.tab[j].master_addr # probe.tab[k].master_addr

\* C24: a command with a slot that no range of the table contains is failed
\* by Handler<M> with NotConnected: no request is sent for it and no frame
\* is written.
C24_UncoveredFails ==
    [][\A c \in CallIds :
          (/\ calls[c].stage = "cmd" /\ calls'[c].stage # "cmd"
           /\ ~MultiSlot(calls[c].cmd)
           /\ Slotted(calls[c].cmd) /\ ~Covered(calls[c].cmd))
          => /\ calls'[c].stage = "done"
             /\ calls'[c].result.kind = "NotConnected"
             /\ CmdMsgsOf(c)' = {}]_vars

\* C25: a command without keys (a Del of no key) is sent to the seed
\* address, whatever nodes are registered.
C25_KeylessToSeed ==
    \A c \in CallIds :
        (~Slotted(calls[c].cmd) /\ SentOnce(c)) => calls[c].lastAddr = addrs[1]

\* C26: when the response future of an ASKING handles a MOVED or ASK reply,
\* nothing is sent on its behalf: no request joins the mailbox, no connection
\* is attempted and no frame is written.
C26_AskingNotRedirected ==
    [][\A f \in futs \ futs' :
          (started' /\ f.kind = "asking" /\ f.res.kind \in {"MOVED", "ASK"})
          => UNCHANGED <<mailbox, wait, wire, lastWritten>>]_vars

\* the CLUSTER SLOTS requests in the mailbox
SlotsMsgs(mb) == {k \in DOMAIN mb : mb[k].type = "Raw" /\ mb[k].kind = "slots"}

\* C27: handling an ASK reply leaves the slot table and the stale flag as
\* they are, and the connection it makes to the ASK target, a node not
\* connected before, is followed by no CLUSTER SLOTS request.
C27_AskNoRefresh ==
    [][/\ (\E f \in futs \ futs' : started' /\ f.res.kind = "ASK")
             => UNCHANGED <<slots, stale_slots>>
       /\ (hist.askConn # {} /\ wait' # wait)
             => SlotsMsgs(mailbox') = SlotsMsgs(mailbox)]_vars

\* C27, amended: handling an ASK reply leaves the slot table and the stale
\* flag as they are; the connection it makes to the ASK target is followed
\* by a CLUSTER SLOTS request exactly when the node gets connected while the
\* table is marked stale already.
C27_AskRefreshOnlyIfStale ==
    [][/\ (\E f \in futs \ futs' : started' /\ f.res.kind = "ASK")
             => UNCHANGED <<slots, stale_slots>>
       /\ (hist.askConn # {} /\ wait' # wait)
             => ((SlotsMsgs(mailbox') # SlotsMsgs(mailbox))
                    <=> (stale_slots /\ nodes' # nodes))]_vars

\* C27 witness: with a table in force that does not name B, B got connected
\* for an ASK and no CLUSTER SLOTS request followed.
C27_Witness ==
    /\ ~stale_slots /\ slots # <<>>
    /\ "B" \in DOMAIN nodes
    /\ \A k \in DOMAIN slots : slots[k].master_addr # "B"
    /\ \A c \in CallIds : calls[c].nMoved = 0
    /\ \E c \in CallIds : calls[c].nAsk > 0 /\ calls[c].lastVia = "ASK"
    /\ SlotsMsgs(mailbox) = {}
    /\ \A f \in futs : f.kind # "slots"

\* the CLUSTER SLOTS requests sent and not answered or dropped yet
SlotsInFlight ==
    Cardinality(SlotsMsgs(mailbox)) + Cardinality({f \in futs : f.kind = "slots"})

\* C28: at most one CLUSTER SLOTS request is in flight at any time.
C28_OneRefresh ==
    SlotsInFlight <= 1

\* C29: no caller command leaves Handler<M> for a node before a slot table
\* has been installed.
C29_TableBeforeTraffic ==
    [][\A c \in CallIds :
          (calls[c].stage = "cmd" /\ calls'[c].stage = "raw")
          => ~(slots = <<>> /\ stale_slots)]_vars

\* C30: the restart leaves the slot table empty and the registry without
\* entries.
C30_RestartClears ==
    [][(started /\ ~started') => (slots' = <<>> /\ nodes' = EmptyMap)]_vars

\* C31: a request sent to the address of a node that is up is not failed for
\* want of a registry entry: the connection is made and the request sent.
C31_LazyConnect ==
    [][\A c \in CallIds :
          (/\ calls[c].stage = "raw"
           /\ calls'[c].stage = "done"
           /\ Head(mailbox).addr \in Reachable)
          => calls'[c].result # Failed("NotConnected")]_vars

\* C32: outside a supervised restart every registry entry stays, and its
\* queue changes only by one waiter pushed at the back or the head waiter
\* popped: no dispatch, reply, redirect or refresh removes or replaces it.
C32_EntryRetained ==
    [][~(started /\ ~started') =>
          \A a \in DOMAIN nodes :
              /\ a \in DOMAIN nodes'
              /\ \/ nodes'[a] = nodes[a]
                 \/ nodes'[a] = Append(nodes[a], nextId)
                 \/ nodes[a] # <<>> /\ nodes'[a] = Tail(nodes[a])]_vars

\* both nodes are registered after a refresh, a MOVED redirect and the
\* reply to the call, and no restart has happened
C32_Witness ==
    /\ DOMAIN nodes = {"A", "B"}
    /\ ~stale_slots
    /\ hist.stops = 0
    /\ hist.lost = {}
    /\ budget.faults = MaxFaults
    /\ \E c \in CallIds :
          /\ calls[c].nMoved > 0
          /\ calls[c].stage = "done"
          /\ calls[c].result.kind = "val"

\* C33: on every registered connection the waiters queued are, in order, the
\* waiters of the frames written and not yet answered: as many waiters as
\* frames written minus replies read, the waiter enqueued in the step that
\* writes its frame.
C33_QueueMatchesFrames ==
    \A a \in DOMAIN nodes :
        /\ Len(nodes[a]) = Len(wire[a])
        /\ \A k \in DOMAIN nodes[a] : nodes[a][k] = wire[a][k].id

\* two frames wait for their replies on a connection that has had a reply
\* read already
C33_Witness ==
    \E a \in DOMAIN nodes :
        /\ Len(nodes[a]) = 2
        /\ Len(wire[a]) = 2
        /\ \E f \in futs : f.addr = a /\ f.res.kind # "none"

\* C34: a MOVED or ASK redirect that names a registered address starts no
\* connection attempt and leaves the registry, the queues and the frames in
\* flight as they are; a connection attempt that completes for an address
\* registered meanwhile changes nothing either: no entry replaced, no waiter
\* lost, no further request made.
C34_DuplicateConnect ==
    [][/\ \A f \in futs \ futs' :
             (/\ started'
              /\ f.res.kind \in {"MOVED", "ASK"}
              /\ f.res.target \in DOMAIN nodes)
             => (wait' = wait /\ nodes' = nodes /\ wire' = wire)
       /\ (/\ Len(wait') < Len(wait)
           /\ wait[Len(wait)] \in DOMAIN nodes)
          => (/\ nodes' = nodes /\ wire' = wire /\ futs' = futs
              /\ mailbox' = mailbox /\ calls' = calls)]_vars

\* a redirect naming a registered node whose queue holds a waiter has been
\* handled: the request is on its way to that node and no attempt is waited
\* for
C34_Witness ==
    /\ wait = <<>>
    /\ \E k \in DOMAIN mailbox :
          /\ mailbox[k].type = "Raw"
          /\ mailbox[k].via \in {"MOVED", "ASK"}
          /\ mailbox[k].addr \in DOMAIN nodes
          /\ nodes[mailbox[k].addr] # <<>>

\* C35: an error on the connection of one node leaves the other nodes in
\* the registry with their queues, and fails no call whose request waits on
\* another node's connection.
C35_ErrorIsLocal ==
    [][\A a \in (hist'.lost \ hist.lost) \cap DOMAIN nodes :
          /\ \A b \in DOMAIN nodes \ {a} :
                b \in DOMAIN nodes' /\ nodes'[b] = nodes[b]
          /\ \A c \in CallIds :
                (calls[c].stage = "ctx" /\ calls[c].lastAddr # a
                    /\ CmdFutsOf(c) # {})
                => calls'[c] = calls[c]]_vars

\* C36: every command a caller has sent is eventually resolved, with a value
\* or with an error.
C36_EventuallyResolved ==
    \A c \in 1..MaxCalls :
        (c \in DOMAIN calls) ~> (c \in DOMAIN calls /\ calls[c].stage = "done")

\* C37: a restart leaves no frame in flight: every frame that may still be
\* answered was written since the last restart and its waiter is pending in
\* the context, and a waiter that has been resolved was resolved by the reply
\* to its own frame.
C37_NoStaleReply ==
    /\ \A a \in DOMAIN wire : \A k \in DOMAIN wire[a] :
          \E f \in futs :
              f.id = wire[a][k].id /\ f.addr = a /\ f.res.kind = "none"
    /\ \A f \in futs : f.res.kind # "none" => f.res.node = f.addr

\* a connection was lost with a waiter pending on it, the router restarted
\* and connected to the node again, and a waiter queued since has its reply
C37_Witness ==
    /\ hist.drop # {}
    /\ hist.lost = {}
    /\ DOMAIN nodes = {"A"}
    /\ \E f \in futs :
          f.addr = "A" /\ f.kind = "cmd" /\ f.res.kind = "val" /\ f.res.for = f.id

\* C38: a MOVED or ASK error reply that lacks the address does not bring the
\* router down: once its response future has run the router is still
\* started, its registry is as it was and the call has its result.
C38_GarbledRedirect ==
    [][\A f \in futs \ futs' :
          (f.res.kind \in {"MOVED", "ASK"} /\ f.res.target = NoTarget)
          => /\ started'
             /\ ~hist'.panicked
             /\ nodes' = nodes
             /\ f.kind = "cmd" => calls'[f.call].stage = "done"]_vars

C40_StrayErrorDiscarded ==
    [][\A a \in (hist'.lost \ hist.lost) \cap DOMAIN nodes :
          nodes[a] = <<>>
          => (nodes' = nodes /\ slots' = slots /\ futs' = futs)]_vars

\* the slots of the keys of the command
SlotsOfKeys(cmd) == {slot(cmd.keys[k]) : k \in DOMAIN cmd.keys}

\* C17: key_slot of a keyed command is None when it has no key, Some(s) when
\* all its keys have slot s, and the MultipleSlot error when two keys differ
\* in slot; while the keys are fed the hasher goes from None to Some(s) and
\* stays at that s until it fails.
C17_KeySlot ==
    [][/\ (probe'.ks # NoKs /\ probe.cmd.name \in {"DEL", "EVALSHA", "GET"}) =>
             IF probe.cmd.keys = <<>> THEN probe'.ks = [ok |-> TRUE, val |-> <<>>]
             ELSE IF Cardinality(SlotsOfKeys(probe.cmd)) = 1
                  THEN probe'.ks = [ok |-> TRUE, val |-> <<slot(probe.cmd.keys[1])>>]
                  ELSE ~probe'.ks.ok
       /\ probe.hasher.val # <<>> =>
             /\ probe'.hasher.val # <<>>
             /\ probe'.hasher.val[1] = probe.hasher.val[1]
             /\ probe'.hasher.ok => probe'.hasher = probe.hasher
       /\ ~probe.hasher.ok => probe'.hasher = probe.hasher]_vars

\* C17 witness: a Del of three keys of one slot, two of them tagged, has been
\* fed key by key and its key_slot is that slot.
C17_Witness ==
    /\ probe.cmd.name = "DEL"
    /\ probe.fed = 3
    /\ Cardinality({probe.cmd.keys[k] : k \in DOMAIN probe.cmd.keys}) = 3
    /\ probe.hasher = [ok |-> TRUE, val |-> <<15495>>]
    /\ probe.ks = probe.hasher

\* C18: the slot of a key is that of its hash tag: "{user42}:profile" and
\* "{user42}:inbox" have the slot of "user42" (14710), "{}x" the slot of the
\* whole key (10595), "{a}{b}" and "{a}b" the slot of "a" (15495).
C18_HashTag ==
    (probe.ks # NoKs /\ probe.cmd.name = "GET") =>
        LET key == probe.cmd.keys[1]
            expected == CASE key \in {KeyUser42, KeyUser42Profile, KeyUser42Inbox} -> 14710
                          [] key = KeyEmptyTagX -> 10595
                          [] key \in {KeyA, KeyTagATagB, KeyTagAB} -> 15495
                          [] key = KeyB -> 3300
                          [] key = KeyActix -> 15206
        IN probe.ks = [ok |-> TRUE, val |-> <<expected>>]

\* C18 witness: key_slot of Get "{a}{b}" has been computed.
C18_Witness ==
    probe.cmd = Get(KeyTagATagB) /\ probe.ks # NoKs /\ probe.fed = 1

\* C20: from_response of Ttl and Pttl gives KeyNotExist for Integer(-2),
\* NoExpire for Integer(-1), Unknown(x) for any other negative x, Ok(x) for
\* x >= 0, and a protocol error for a reply that is not an integer.
C20_TtlMapping ==
    probe.parsed # NoParsed =>
        probe.parsed =
            IF probe.res.t # "Integer" THEN InvalidResponse
            ELSE IF probe.res.i = -2 THEN KeyNotExist
            ELSE IF probe.res.i = -1 THEN NoExpire
            ELSE IF probe.res.i < 0 THEN Unknown(probe.res.i)
            ELSE TtlOk(probe.res.i)

====
